---- MODULE Spec2Model ----
(***************************************************************************)
(* The trading control loop of bot.py (main and its helpers), the run flag *)
(* kept by app.py, and the exchange the loop talks to.                      *)
(*                                                                         *)
(* Prices are whole price units.  The limit price of an order (field       *)
(* "price") is kept doubled, so that the 0.5 buffer of bot.py is the       *)
(* integer 1: price = 2 * stopPrice + 1 stands for stopPrice + 0.5.        *)
(*                                                                         *)
(* One iteration of the `while True` loop of main() is one action, Cycle.  *)
(* The iteration blocks on its client calls one after the other, and the   *)
(* exchange goes on matching orders meanwhile: the action takes as inputs  *)
(* whether each client call fails and what the exchange did while each of  *)
(* them was awaited (see Meanwhile and Wait).  What the exchange does      *)
(* before the first query of an iteration, or after its last call, is a    *)
(* step of the environment between two iterations (MarkMove, Fill).        *)
(*                                                                         *)
(* bot.py also defines close_all_positions and cancel_all_orders; nothing  *)
(* in the repository calls them.  They are actions of their own: whoever   *)
(* imports the module may call them at any time.                           *)
(*                                                                         *)
(* The helpers of bot.py read SYMBOL and SL_AMOUNT as module globals;      *)
(* main() assigns both as locals and bot.py binds neither at module level  *)
(* (see ModuleGlobals).  A helper that reads one of them ends in a         *)
(* NameError before it reaches the client.                                 *)
(*                                                                         *)
(* The account the bot trades on is the exchange's: the position and the   *)
(* orders it holds when the bot is started are inputs (see Accounts).      *)
(*                                                                         *)
(* One symbol is traded; the symbol and the timeframe of the configuration *)
(* are not modelled.                                                       *)
(***************************************************************************)
EXTENDS Integers, Sequences, FiniteSets, TLC

VARIABLES
    running,        \* BotStatus.running (models.py:18)
    config,         \* the Config row (models.py:10-14); session_start in minutes
    current_time,   \* session gate on its own: the instant it is asked about
    within,         \* session gate on its own: its answer
    mark,           \* exchange: mark price of the symbol
    positionAmt,    \* exchange: signed position size
    entryPrice,     \* exchange: entry price of the position (0 when flat)
    orderSeq,       \* exchange: number of orders accepted so far
    book,           \* exchange: the records of the orders, see Retained
    live,           \* exchange: orderIds of the orders still open
    sl_order,       \* bot.py:43 global: the tracked stop order, or None
    tsl_triggered,  \* bot.py:44 global
    last,           \* history: what the loop iteration that just ended did
    failures,       \* history: iterations and calls so far in which a client call failed
    candles,        \* signal on its own: the two candles it is asked about
    evaluated,      \* signal on its own: its answer
    pc,             \* loop with its sleeps: where the loop of main() is
    klines,         \* exchange: number of candles it returns for the symbol
    posts           \* history: configurations posted so far

vars == <<running, config, current_time, within, mark, positionAmt,
          entryPrice, orderSeq, book, live, sl_order, tsl_triggered, last, failures, candles, evaluated, pc, klines, posts>>

(***************************************************************************)
(* Bounds of the model.                                                    *)
(***************************************************************************)
MaxOrders == 4      \* orders the exchange accepts in one run
MaxFailures == 1    \* loop iterations in which some client call fails
MaxPos == 2         \* largest position size the exchange lets build up
MaxPosts == 1       \* configurations posted to the admin page
LoopOrders == 3     \* orders the exchange accepts in a run of the loop with its sleeps

(***************************************************************************)
(* Program constants.                                                      *)
(***************************************************************************)
None == 0               \* Python None, where an orderId is expected
SIDE_BUY == "BUY"
SIDE_SELL == "SELL"
ORDER_TYPE_STOP_LOSS_LIMIT == "STOP_LOSS_LIMIT"

SessionHours == 21       \* timedelta(hours=21)

\* the defaults of the Config row (models.py:10-14)
DefaultSessionStart == 480   \* '08:00:00'
DefaultSlAmount == 25
DefaultTslStep == 10
DefaultTradeQuantity == 1
DefaultConfig ==
    [session_start |-> DefaultSessionStart, sl_amount |-> DefaultSlAmount,
     tsl_step |-> DefaultTslStep, trade_quantity |-> DefaultTradeQuantity]

\* a configuration posted to the admin page: 03:00, 50, 5, 2
PostedConfig ==
    [session_start |-> 180, sl_amount |-> 50, tsl_step |-> 5,
     trade_quantity |-> 2]

Configs == {DefaultConfig, PostedConfig}
MinutesPerDay == 1440
VwapWindow == 14           \* window=14 of the VWAP
FullFrame == 100           \* limit=100 of futures_klines
NaN == -1                 \* stands for the float NaN of a rolling window not yet full

\* faulty variant of ModuleGlobals: SYMBOL and SL_AMOUNT are bound at module
\* level as well
ModuleGlobals_WithConfig == {"sl_order", "tsl_triggered", "SYMBOL", "SL_AMOUNT"}

\* bot.py:43-44: the names bot.py binds at module level, of those its
\* functions read as globals.  SYMBOL and SL_AMOUNT are locals of main()
\* (bot.py:234, 236).
ModuleGlobals == {"sl_order", "tsl_triggered"}

\* a function other than main() reads name: the read raises NameError unless
\* the name is a module global
Resolves(name) == name \in ModuleGlobals

\* limit price (doubled) of a stop price plus / minus the 0.5 buffer
Above(p) == 2 * p + 1
Below(p) == 2 * p - 1

(***************************************************************************)
(* Inputs the environment supplies.                                        *)
(***************************************************************************)
Marks == {60, 136}
Highs == {100, 104}
Lows == {96}

\* Consecutive calendar days around the end of a month, by day of month.
CalendarDays == <<30, 31, 1, 2>>

\* The clock readings the loop sees: 01:00, 06:00 and 12:00 of the 31st.  Each
\* configuration has one of them outside its session and one inside.
SampleTimes == {[d |-> 2, m |-> 60], [d |-> 2, m |-> 360], [d |-> 2, m |-> 720]}

Candle(c, v, st, h, l) ==
    [close |-> c, vwap |-> v, supertrend |-> st, high |-> h, low |-> l]

\* df.iloc[-3:-1] of a fetched and annotated frame: <<older, latest closed>>
KlineSamples ==
    {<<Candle(h, h - 1, TRUE, h, h - 2), Candle(h, h - 1, TRUE, h, h - 2)>> : h \in Highs}
    \cup
    {<<Candle(l, l + 1, FALSE, l + 2, l), Candle(l, l + 1, FALSE, l + 2, l)>> : l \in Lows}
    \cup
    {<<Candle(100, 99, TRUE, 100, 98), Candle(98, 99, TRUE, 100, 98)>>}

\* bot.py:84-85: the rolling VWAP of a row whose window is full is a number.
\* What the indicator package gives for an earlier row is not in the
\* repository: NaN or a number.
WithVwap(c, row) == IF row < VwapWindow - 1 THEN {c, [c EXCEPT !.vwap = NaN]} ELSE {c}

\* bot.py:246: rows n-3 and n-2 (counted from 0) of an annotated frame of n
\* candles
LastTwo(n) == UNION {WithVwap(p[1], n - 3) \X WithVwap(p[2], n - 2) : p \in KlineSamples}

(***************************************************************************)
(* Session gate (bot.py:49-60).  An instant is [d, m]: index of the day in *)
(* CalendarDays and minute of that day.                                    *)
(***************************************************************************)
Abs(t) == t.d * MinutesPerDay + t.m
DayOfMonth(t) == CalendarDays[t.d]
AddMinutes(t, n) ==
    [d |-> t.d + ((t.m + n) \div MinutesPerDay), m |-> (t.m + n) % MinutesPerDay]

\* bot.py:54  session_end.day > session_start.day
CrossesMidnight(session_start_t, session_end) ==
    DayOfMonth(session_end) > DayOfMonth(session_start_t)

is_within_session(now, cfg) ==
    LET session_start_t == [d |-> now.d, m |-> cfg.session_start]
        session_end == AddMinutes(session_start_t, SessionHours * 60)
    IN  IF CrossesMidnight(session_start_t, session_end)
        THEN Abs(now) >= Abs(session_start_t) \/ Abs(now) < Abs(session_end)
        ELSE Abs(session_start_t) <= Abs(now) /\ Abs(now) < Abs(session_end)

(***************************************************************************)
(* Signal (bot.py:245-258) over last_two = <<older, latest closed candle>>.*)
(***************************************************************************)
\* a comparison with NaN is False
Greater(a, b) == a # NaN /\ b # NaN /\ a > b

buy_condition(last_two) ==
    /\ \A i \in 1..2 : Greater(last_two[i].close, last_two[i].vwap)
    /\ \A i \in 1..2 : last_two[i].supertrend

\* faulty variant of sell_condition: one candle is enough
sell_condition_Any(last_two) ==
    /\ \E i \in 1..2 : Greater(last_two[i].vwap, last_two[i].close)
    /\ \E i \in 1..2 : ~last_two[i].supertrend

sell_condition(last_two) ==
    /\ \A i \in 1..2 : Greater(last_two[i].vwap, last_two[i].close)
    /\ \A i \in 1..2 : ~last_two[i].supertrend

NotEvaluated == [done |-> FALSE, buy |-> FALSE, sell |-> FALSE]

(***************************************************************************)
(* The helpers of bot.py, as steps on the context x of one loop iteration: *)
(* the locals main() read from the configuration, the exchange, the two    *)
(* globals, what the iteration has seen and what it has done so far.  ok   *)
(* says whether the client call of the helper succeeds.                    *)
(***************************************************************************)
NoPosition == [positionAmt |-> 0, entryPrice |-> 0]

Ctx0 ==
    [SL_AMOUNT |-> config.sl_amount,            \* bot.py:236
     TSL_STEP |-> config.tsl_step,              \* bot.py:237
     TRADE_QUANTITY |-> config.trade_quantity,  \* bot.py:238
     mark |-> mark, positionAmt |-> positionAmt, entryPrice |-> entryPrice,
     orderSeq |-> orderSeq, book |-> book, live |-> live,
     sl_order |-> sl_order, tsl_triggered |-> tsl_triggered,
     ret |-> None,        \* value returned by the latest helper
     raised |-> FALSE,    \* an exception is propagating to main's handler
     failed |-> FALSE,    \* a call of the iteration failed, at the client or before
     over |-> FALSE,      \* the exchange's order bound was hit
     nPlace |-> 0,        \* calls of place_stop_limit_order
     nCancel |-> 0,       \* calls of cancel_order
     created |-> 0,       \* orders the exchange accepted from the iteration
     removed |-> 0,       \* orders the exchange cancelled for the iteration
     filled |-> FALSE,    \* an order filled while the iteration ran
     open_orders |-> {},          \* bot.py:261
     current_position |-> NoPosition,   \* bot.py:262
     mark_price |-> 0,            \* bot.py:302
     queryFailed |-> FALSE,       \* one of the two queries failed
     branch |-> "none", signal |-> "none", trigger |-> 0,
     mortal |-> FALSE,    \* the process may be killed while the iteration runs
     dead |-> FALSE]      \* the process was killed

\* client.futures_get_order: the exchange's record of an order
OrderOf(b, id) == CHOOSE o \in b : o.orderId = id

\* The exchange keeps the record of every order.  The loop only ever reads
\* the records of the open orders and of the order it tracks, so the model
\* keeps those and drops the others.
Retained(b, open, tracked) == {o \in b : o.orderId \in open \cup {tracked}}

Order(id, side, trigger_price, limit_price, quantity, origin) ==
    [orderId |-> id, side |-> side, type |-> ORDER_TYPE_STOP_LOSS_LIMIT,
     stopPrice |-> trigger_price, price |-> limit_price, origQty |-> quantity,
     origin |-> origin]

\* bot.py:128-149: the exception is logged and raised again.  With SYMBOL
\* unbound the exception is the NameError of bot.py:131.
place_stop_limit_order(x, side, trigger_price, limit_price, quantity, origin, ok) ==
    IF ~ok \/ ~Resolves("SYMBOL")
    THEN [x EXCEPT !.raised = TRUE, !.failed = TRUE, !.ret = None, !.nPlace = @ + 1]
    ELSE IF x.orderSeq >= MaxOrders
    THEN [x EXCEPT !.over = TRUE]
    ELSE LET id == x.orderSeq + 1
         IN  [x EXCEPT !.orderSeq = id,
                       !.book = @ \cup {Order(id, side, trigger_price, limit_price,
                                              quantity, origin)},
                       !.live = @ \cup {id},
                       !.ret = id,
                       !.nPlace = @ + 1,
                       !.created = @ + 1]

\* bot.py:151-161: every exception is logged and swallowed.  The exchange
\* answers the cancel of an order that is no longer open with "unknown
\* order", which is one of these exceptions; with SYMBOL unbound the
\* exception is the NameError of bot.py:153.
cancel_order(x, order_id, ok) ==
    IF ok /\ Resolves("SYMBOL") /\ order_id \in x.live
    THEN [x EXCEPT !.live = @ \ {order_id}, !.nCancel = @ + 1, !.removed = @ + 1]
    ELSE [x EXCEPT !.failed = @ \/ ~ok \/ ~Resolves("SYMBOL"), !.nCancel = @ + 1]

\* bot.py:163-169: the open orders, as the exchange's records; a failure
\* (with SYMBOL unbound, the NameError of bot.py:165) is logged and []
\* returned
get_open_orders(x, ok) ==
    IF ok /\ Resolves("SYMBOL") THEN {o \in x.book : o.orderId \in x.live} ELSE {}

\* bot.py:171-180: the position whose amount is not 0, else None; a failure
\* (with SYMBOL unbound, the NameError of bot.py:173) is logged and None
\* returned.  NoPosition stands for None.
get_position(x, ok) ==
    IF ok /\ Resolves("SYMBOL") /\ x.positionAmt # 0
    THEN [positionAmt |-> x.positionAmt, entryPrice |-> x.entryPrice]
    ELSE NoPosition

\* bot.py:182-196: every exception is logged and swallowed, the function then
\* returns None.  With SL_AMOUNT unbound the exception is the NameError of
\* bot.py:185 / 189, before place_stop_limit_order is called; otherwise it is
\* the exception of the placement.
set_stop_loss(x, entry_price, side, quantity, ok) ==
    LET sl_stop_price == IF side = SIDE_BUY THEN entry_price - x.SL_AMOUNT
                         ELSE entry_price + x.SL_AMOUNT
        sl_limit_price == IF side = SIDE_BUY THEN Below(sl_stop_price)
                          ELSE Above(sl_stop_price)
        sl_side == IF side = SIDE_BUY THEN SIDE_SELL ELSE SIDE_BUY
        y == place_stop_limit_order(x, sl_side, sl_stop_price, sl_limit_price,
                                    quantity, "protect", ok)
    IN  IF ~Resolves("SL_AMOUNT") THEN [x EXCEPT !.failed = TRUE, !.ret = None]
        ELSE [y EXCEPT !.raised = FALSE]

\* client.futures_mark_price / client.futures_get_order raising (bot.py:302, 310)
Raise(x) == [x EXCEPT !.raised = TRUE, !.failed = TRUE]

(***************************************************************************)
(* The exchange's matching, as a step on the context.                      *)
(***************************************************************************)
Triggered(o, mark_price) ==
    IF o.side = SIDE_BUY THEN mark_price >= o.stopPrice ELSE mark_price <= o.stopPrice

AbsInt(n) == IF n < 0 THEN -n ELSE n

\* the position after a trade of quantity on side
AmountAfter(x, side, quantity) ==
    IF side = SIDE_BUY THEN x.positionAmt + quantity ELSE x.positionAmt - quantity

\* A trade of quantity on side at price.  A trade that takes the position
\* through zero opens the opposite position at the trade's price.
Traded(x, side, quantity, price) ==
    LET oldAmt == x.positionAmt
        newAmt == AmountAfter(x, side, quantity)
        turned == oldAmt = 0 \/ newAmt = 0 \/ (oldAmt > 0) # (newAmt > 0)
    IN  [x EXCEPT
            !.positionAmt = newAmt,
            !.entryPrice = IF newAmt = 0 THEN 0
                           ELSE IF turned THEN price
                           ELSE IF AbsInt(newAmt) > AbsInt(oldAmt)
                           THEN (x.entryPrice * AbsInt(oldAmt) + price * quantity)
                                    \div AbsInt(newAmt)
                           ELSE x.entryPrice]

CanFill(x, id) ==
    /\ id \in x.live
    /\ Triggered(OrderOf(x.book, id), x.mark)
    /\ AbsInt(AmountAfter(x, OrderOf(x.book, id).side, OrderOf(x.book, id).origQty))
          <= MaxPos

\* An open stop order whose trigger the mark price has reached fills at its
\* trigger price, for its quantity.
Filled(x, id) ==
    LET o == OrderOf(x.book, id)
        open == x.live \ {id}
        y == Traded(x, o.side, o.origQty, o.stopPrice)
    IN  [y EXCEPT !.live = open,
                  !.book = Retained(x.book, open, x.sl_order),
                  !.filled = TRUE]

(***************************************************************************)
(* The body of main()'s loop.  A stage takes the set of contexts the       *)
(* iteration can be in and gives the set it can be in after the stage.     *)
(***************************************************************************)
\* the iteration goes on: no exception is propagating and the process lives
Alive(x) == ~x.raised /\ ~x.dead

\* The failures of the client an iteration may be given: none once
\* MaxFailures iterations have had one, and none where the helpers do not
\* reach the client.
Fail == IF failures < MaxFailures /\ Resolves("SYMBOL") THEN BOOLEAN ELSE {FALSE}

\* What the exchange may have done by the time a client call is answered,
\* when prices are the mark prices the market can be at meanwhile: nothing,
\* or, any number of times, the mark price has gone to one of them and an
\* open order has filled there.
RECURSIVE Matched(_, _)
Matched(S, prices) ==
    LET T == S \cup UNION {{Filled([x EXCEPT !.mark = q[1]], q[2]) :
                              q \in {r \in (prices \cup {x.mark}) \X x.live :
                                        CanFill([x EXCEPT !.mark = r[1]], r[2])}} :
                           x \in S}
    IN  IF T = S THEN S ELSE Matched(T, prices)

Meanwhile(x, prices) == Matched({x}, prices)

\* the loop waits for the answer of a client call
Wait(S, prices) == UNION {IF Alive(x) THEN Meanwhile(x, prices) ELSE {x} : x \in S}

\* the process may be killed once a call has changed the exchange
Die(S) == S \cup {[x EXCEPT !.dead = TRUE] : x \in {y \in S : y.mortal /\ Alive(y)}}

\* bot.py:261
QueryOrders(S) ==
    UNION {{[x EXCEPT !.open_orders = get_open_orders(x, ~f),
                      !.queryFailed = @ \/ f \/ ~Resolves("SYMBOL"),
                      !.failed = @ \/ f \/ ~Resolves("SYMBOL")] : f \in Fail} : x \in S}

\* bot.py:262
QueryPosition(S) ==
    UNION {{[x EXCEPT !.current_position = get_position(x, ~f),
                      !.queryFailed = @ \/ f \/ ~Resolves("SYMBOL"),
                      !.failed = @ \/ f \/ ~Resolves("SYMBOL")] : f \in Fail} : x \in S}

\* bot.py:302: the mark price is what the market is at when the call is
\* answered; the call may raise
ReadMark(S, prices) ==
    UNION {IF Alive(x)
           THEN {[x EXCEPT !.mark = p, !.mark_price = p] : p \in prices \cup {x.mark}}
                \cup (IF TRUE \in Fail THEN {Raise(x)} ELSE {})
           ELSE {x} : x \in S}

Cancel(S, order_id) ==
    UNION {IF Alive(x) THEN {cancel_order(x, order_id, ~f) : f \in Fail} ELSE {x} :
           x \in S}

\* the cancel of the tracked stop in a transition (bot.py:330 / 346)
CancelTracked(S) ==
    UNION {IF Alive(x) THEN {cancel_order(x, x.sl_order, ~f) : f \in Fail} ELSE {x} :
           x \in S}

Place(S, side, trigger_price, limit_price, quantity, origin) ==
    UNION {IF Alive(x)
           THEN {place_stop_limit_order(x, side, trigger_price, limit_price,
                                        quantity, origin, ~f) : f \in Fail}
           ELSE {x} : x \in S}

\* the orders `next(...)` of bot.py:269-272 / 283-286 can return
Matching(open_orders, side) ==
    {o.orderId : o \in {r \in open_orders :
                          r.side = side /\ r.type = ORDER_TYPE_STOP_LOSS_LIMIT}}

\* bot.py:274 / 288
TriggerDiffers(existing_order, trigger_price) ==
    existing_order.stopPrice # trigger_price

\* bot.py:273-278 / 287-292: the order `next` returned from open_orders is
\* replaced when its trigger price differs; with none, one is placed
reconcile_entry(x, side, trigger_price, limit_price, prices) ==
    LET m == Matching(x.open_orders, side)
    IN  IF m = {}
        THEN Place(Wait({x}, prices), side, trigger_price, limit_price,
                   x.TRADE_QUANTITY, "entry")
        ELSE UNION {IF TriggerDiffers(OrderOf(x.open_orders, existing), trigger_price)
                    THEN Place(Wait(Die(Cancel(Wait({x}, prices), existing)), prices),
                               side, trigger_price, limit_price,
                               x.TRADE_QUANTITY, "entry")
                    ELSE {x} : existing \in m}

\* bot.py:295-297 / 215-217: cancel the orders todo of open_orders, in the
\* order the exchange listed them, which is any order
RECURSIVE cancel_pending(_, _, _)
cancel_pending(S, todo, prices) ==
    IF todo = {} THEN S
    ELSE UNION {cancel_pending(Die(Cancel(Wait(S, prices), id)), todo \ {id}, prices) :
                id \in todo}

\* bot.py:322 / 326
BreakEvenStop(entry_price, side) == entry_price

\* bot.py:338 / 342
TrailingStop(current_sl_stop_price, side, step) ==
    IF side = SIDE_BUY THEN current_sl_stop_price + step
    ELSE current_sl_stop_price - step

\* bot.py:330-332 / 346-347: cancel the tracked stop, place the new one and
\* track it; a failed placement leaves both globals as they were
move_stop(x, side, new_sl_stop_price, breakEven, prices) ==
    LET new_sl_limit_price == IF side = SIDE_BUY THEN Below(new_sl_stop_price)
                              ELSE Above(new_sl_stop_price)
        sl_side == IF side = SIDE_BUY THEN SIDE_SELL ELSE SIDE_BUY
        Z == Place(Wait(Die(CancelTracked(Wait({x}, prices))), prices),
                   sl_side, new_sl_stop_price, new_sl_limit_price,
                   x.TRADE_QUANTITY, "protect")
    IN  {IF Alive(z) /\ ~z.over
         THEN [z EXCEPT !.sl_order = z.ret,
                        !.tsl_triggered = IF breakEven THEN TRUE ELSE @]
         ELSE z : z \in Z}

\* bot.py:314-317
Profit(side, mark_price, entry_price) ==
    IF side = SIDE_BUY THEN mark_price - entry_price ELSE entry_price - mark_price

PositionSide(current_position) ==
    IF current_position.positionAmt > 0 THEN SIDE_BUY ELSE SIDE_SELL

(***************************************************************************)
(* One iteration of the loop of main() (bot.py:224-356).                   *)
(***************************************************************************)
Gate(b) == IF b THEN "in" ELSE "out"

\* The history of the latest iteration lasts until the environment, the
\* configuration or the run flag next moves.
LastNone ==
    [branch |-> "none", signal |-> "none", trigger |-> 0, clean |-> TRUE,
     queryFailed |-> FALSE, nPlace |-> 0, nCancel |-> 0,
     created |-> 0, removed |-> 0, raised |-> FALSE, filled |-> FALSE,
     killed |-> FALSE]

\* The iteration ends with context x: the exchange and the globals take its
\* values, the history variables record what it did, in detail or, where
\* only the course of the loop matters, by its branch and its end.  A
\* NameError of a helper is not a call the client made: it does not count
\* as one of the MaxFailures failures.  A process that was killed is started again: the
\* module is loaded and its globals take their initial values
\* (bot.py:43-44).
Finish(x, detail) ==
    /\ ~x.over
    /\ failures' = IF x.failed /\ Resolves("SYMBOL") THEN failures + 1 ELSE failures
    /\ failures' <= MaxFailures
    /\ mark' = x.mark
    /\ positionAmt' = x.positionAmt
    /\ entryPrice' = x.entryPrice
    /\ orderSeq' = x.orderSeq
    /\ sl_order' = IF x.dead THEN None ELSE x.sl_order
    /\ tsl_triggered' = IF x.dead THEN FALSE ELSE x.tsl_triggered
    /\ book' = Retained(x.book, x.live, sl_order')
    /\ live' = x.live
    /\ last' = IF detail
               THEN [branch |-> x.branch, signal |-> x.signal, trigger |-> x.trigger,
                     clean |-> ~x.failed, queryFailed |-> x.queryFailed,
                     nPlace |-> x.nPlace, nCancel |-> x.nCancel,
                     created |-> x.created, removed |-> x.removed,
                     raised |-> x.raised, filled |-> x.filled,
                     killed |-> x.dead]
               ELSE [LastNone EXCEPT !.branch = x.branch, !.raised = x.raised]
    /\ UNCHANGED <<running, config, current_time, within,
                   candles, evaluated, klines, posts>>

\* bot.py:264-297: the iteration found no position
FlatBranch(x, prices) ==
    UNION {IF buy_condition(last_two) \/ sell_condition(last_two)
           THEN LET buy == buy_condition(last_two)
                    side == IF buy THEN SIDE_BUY ELSE SIDE_SELL
                    trigger_price == IF buy THEN last_two[2].high ELSE last_two[2].low
                    limit_price == IF buy THEN Above(trigger_price)
                                   ELSE Below(trigger_price)
                IN  reconcile_entry([x EXCEPT !.signal = IF buy THEN "buy" ELSE "sell",
                                              !.trigger = trigger_price],
                                    side, trigger_price, limit_price, prices)
           ELSE cancel_pending({x},
                               {o.orderId : o \in {r \in x.open_orders :
                                     r.type = ORDER_TYPE_STOP_LOSS_LIMIT}},
                               prices)
           : last_two \in LastTwo(klines)}

\* bot.py:304-348, with the mark price read
ManageStop(y, prices) ==
    LET entry_price == y.current_position.entryPrice
        side == PositionSide(y.current_position)
    IN  IF ~Alive(y) THEN {y}
        ELSE IF y.sl_order = None
        THEN {[z EXCEPT !.sl_order = z.ret] :
                z \in UNION {{set_stop_loss(w, entry_price, side, w.TRADE_QUANTITY, ~f) :
                                f \in Fail} : w \in Wait({y}, prices)}}
        ELSE (IF TRUE \in Fail THEN {Raise(y)} ELSE {})   \* futures_get_order raises
             \cup
             LET sl_order_details == OrderOf(y.book, y.sl_order)
                 current_sl_stop_price == sl_order_details.stopPrice
                 profit == Profit(side, y.mark_price, entry_price)
             IN  IF profit >= y.SL_AMOUNT + y.TSL_STEP /\ ~y.tsl_triggered
                 THEN move_stop(y, side, BreakEvenStop(entry_price, side), TRUE, prices)
                 ELSE IF profit >= y.SL_AMOUNT + y.TSL_STEP /\ y.tsl_triggered
                 THEN move_stop(y, side,
                                TrailingStop(current_sl_stop_price, side, y.TSL_STEP),
                                FALSE, prices)
                 ELSE {y}

\* bot.py:298-348: the iteration found a position
PositionBranch(x, prices) ==
    UNION {ManageStop(y, prices) : y \in ReadMark(Wait({x}, prices), prices)}

\* faulty variant of no_trading: the tracked stop is taken down
no_trading_CancelStop(x) == cancel_order(x, x.sl_order, TRUE)

\* bot.py:230-232 / 241: an iteration that finds the run flag false, or the
\* time outside the session, goes to its sleep without a client call
no_trading(x) == x

\* bot.py:260-348: the queries and the branch they lead to
Trade(x, prices) ==
    UNION {IF y.current_position = NoPosition
           THEN FlatBranch([y EXCEPT !.branch = "flat"], prices)
           ELSE PositionBranch([y EXCEPT !.branch = "position"], prices)
           : y \in QueryPosition(Wait(QueryOrders({x}), prices))}

\* One iteration, with the mark prices the market can be at while it runs;
\* mortal says whether the process may be killed in it, detail how its
\* history is kept.
Body(prices, mortal, detail) ==
    \/ \* session.query(...).first() raises, or returns no row (bot.py:227-230)
       Finish(Raise([Ctx0 EXCEPT !.branch = "error"]), detail)
    \/ \* bot.py:230-232
       /\ ~running
       /\ Finish(no_trading([Ctx0 EXCEPT !.branch = "idle"]), detail)
    \/ /\ running
       /\ \E inside \in {is_within_session(now, config) : now \in SampleTimes} :
          \* get_current_time(), bot.py:240
          IF ~inside
          THEN Finish(no_trading([Ctx0 EXCEPT !.branch = "gated"]), detail)
          ELSE \/ \* fetch_klines raises (bot.py:242)
                  Finish(Raise([Ctx0 EXCEPT !.branch = "error"]), detail)
               \/ \* calculate_indicators raises (bot.py:124-126), which the
                  \* indicator package may do on a frame shorter than its
                  \* longer window
                  /\ klines < VwapWindow
                  /\ Finish([Ctx0 EXCEPT !.branch = "error", !.raised = TRUE], detail)
               \/ \E z \in Trade([Ctx0 EXCEPT !.mortal = mortal], prices) :
                     Finish(z, detail)

Cycle == Body(Marks, FALSE, TRUE)

(***************************************************************************)
(* The admin page (app.py): the run flag (99-119) and the configuration    *)
(* form (53-97), which stores what is posted, whenever it is posted.       *)
(***************************************************************************)
start_bot ==
    /\ ~running
    /\ running' = TRUE
    /\ last' = LastNone
    /\ UNCHANGED <<config, current_time, within, mark, positionAmt, entryPrice,
                   orderSeq, book, live, sl_order, tsl_triggered, failures,
                   candles, evaluated, pc, klines, posts>>

stop_bot ==
    /\ running
    /\ running' = FALSE
    /\ last' = LastNone
    /\ UNCHANGED <<config, current_time, within, mark, positionAmt, entryPrice,
                   orderSeq, book, live, sl_order, tsl_triggered, failures,
                   candles, evaluated, pc, klines, posts>>

\* app.py:68-94, a POST whose fields parse
index ==
    /\ posts < MaxPosts
    /\ posts' = posts + 1
    /\ config' \in Configs \ {config}
    /\ last' = LastNone
    /\ UNCHANGED <<running, current_time, within, mark, positionAmt, entryPrice,
                   orderSeq, book, live, sl_order, tsl_triggered, failures,
                   candles, evaluated, pc, klines>>

(***************************************************************************)
(* The environment: the market and the exchange's matching.                *)
(***************************************************************************)
MarkMove ==
    /\ mark' \in Marks \ {mark}
    /\ last' = LastNone
    /\ UNCHANGED <<running, config, current_time, within, positionAmt, entryPrice,
                   orderSeq, book, live, sl_order, tsl_triggered, failures,
                   candles, evaluated, pc, klines, posts>>

Fill ==
    \E id \in live :
        /\ CanFill(Ctx0, id)
        /\ LET x == Filled(Ctx0, id)
           IN  /\ positionAmt' = x.positionAmt
               /\ entryPrice' = x.entryPrice
               /\ live' = x.live
               /\ book' = x.book
        /\ last' = LastNone
        /\ UNCHANGED <<failures, running, config, current_time, within, mark,
                       orderSeq, sl_order, tsl_triggered,
                       candles, evaluated, pc, klines, posts>>

(***************************************************************************)
(* The two functions of bot.py nothing in the repository calls.            *)
(***************************************************************************)
\* the exchange takes the values of context x; the loop's globals are not
\* touched
Settle(x) ==
    /\ ~x.over
    /\ failures' = IF x.failed /\ Resolves("SYMBOL") THEN failures + 1 ELSE failures
    /\ failures' <= MaxFailures
    /\ mark' = x.mark
    /\ positionAmt' = x.positionAmt
    /\ entryPrice' = x.entryPrice
    /\ orderSeq' = x.orderSeq
    /\ live' = x.live
    /\ book' = Retained(x.book, x.live, sl_order)
    /\ last' = LastNone
    /\ UNCHANGED <<running, config, current_time, within, sl_order, tsl_triggered,
                   candles, evaluated, pc, klines, posts>>

\* bot.py:203-208: a MARKET order, which trades at once at the mark price.
\* The exception of a failed call (with SYMBOL unbound, the NameError of
\* bot.py:204) is the caller's to handle.
MarketOrder(x, side, quantity, ok) ==
    IF ~ok \/ ~Resolves("SYMBOL")
    THEN [x EXCEPT !.raised = TRUE, !.failed = TRUE]
    ELSE IF x.orderSeq >= MaxOrders \/ AbsInt(AmountAfter(x, side, quantity)) > MaxPos
    THEN [x EXCEPT !.over = TRUE]
    ELSE Traded([x EXCEPT !.orderSeq = @ + 1], side, quantity, x.mark)

\* bot.py:198-211: every exception is logged and swallowed
close_all_positions ==
    \E y \in QueryPosition({Ctx0}) :
        IF y.current_position = NoPosition
        THEN Settle(y)
        ELSE LET side == IF y.current_position.positionAmt > 0 THEN SIDE_SELL
                         ELSE SIDE_BUY
                 quantity == AbsInt(y.current_position.positionAmt)
             IN  \* the order trades at the price the market is at when it
                 \* arrives
                 \E w \in Wait({y}, Marks), f \in Fail :
                    \E p \in Marks \cup {w.mark} :
                        Settle(MarketOrder([w EXCEPT !.mark = p], side, quantity, ~f))

\* bot.py:213-219: cancel_order swallows the exception of each cancel
cancel_all_orders ==
    \E y \in QueryOrders({Ctx0}) :
        \E z \in cancel_pending({y}, {o.orderId : o \in y.open_orders}, Marks) :
            Settle(z)

(***************************************************************************)
(* The account when the bot is started: the position and the open orders   *)
(* the exchange holds for the symbol, whoever made them.                   *)
(***************************************************************************)
StartMark == 100

Account(amt, entry, orders) == [positionAmt |-> amt, entryPrice |-> entry, orders |-> orders]

\* a stop-limit order of the account, for the default quantity
AccountOrder(id, side, stop) ==
    Order(id, side, stop, IF side = SIDE_BUY THEN Above(stop) ELSE Below(stop), DefaultTradeQuantity, "account")

\* a long position entered at 100, with a stop at 75 open
ProtectedLong == Account(DefaultTradeQuantity, StartMark, {AccountOrder(1, SIDE_SELL, StartMark - DefaultSlAmount)})

Accounts ==
    {Account(0, 0, {}),
     Account(0, 0, {AccountOrder(1, SIDE_BUY, StartMark)}),
     Account(DefaultTradeQuantity, StartMark, {}),
     Account(-DefaultTradeQuantity, StartMark, {}),
     ProtectedLong}

\* The process has just been started on account a: the module is loaded
\* (bot.py:43-44) and nothing has run.
Started(a) ==
    /\ positionAmt = a.positionAmt
    /\ entryPrice = a.entryPrice
    /\ orderSeq = Cardinality(a.orders)
    /\ book = a.orders
    /\ live = {o.orderId : o \in a.orders}
    /\ sl_order = None
    /\ tsl_triggered = FALSE
    /\ last = LastNone
    /\ failures = 0
    /\ within = "unknown"
    /\ evaluated = NotEvaluated
    /\ pc = "top"
    /\ posts = 0

(***************************************************************************)
(* The specification of the running system.                                *)
(***************************************************************************)
Init ==
    /\ running = FALSE
    /\ config = DefaultConfig
    /\ current_time = [d |-> 2, m |-> 720]
    /\ mark = StartMark
    /\ candles = <<>>
    /\ klines = FullFrame
    /\ \E a \in Accounts : Started(a)

\* One iteration with the sleep that ends it (bot.py:231, 352, 356).
Iteration == Cycle /\ UNCHANGED pc

Next ==
    \/ Iteration \/ start_bot \/ stop_bot \/ index
    \/ close_all_positions \/ cancel_all_orders
    \/ MarkMove \/ Fill

Spec == Init /\ [][Next]_vars

(***************************************************************************)
(* The loop with its sleeps (bot.py:224-356).  pc is "top" when the loop   *)
(* is about to start an iteration, "sleep" in time.sleep(1) of bot.py:356, *)
(* "backoff" in time.sleep(5) of bot.py:231 / 352, and "dead" once main    *)
(* has returned.  A blocking call returns: the body of an iteration and    *)
(* each sleep are weakly fair.                                             *)
(***************************************************************************)
\* faulty variant of AfterException: the handler lets the exception out
AfterException_Propagates == "dead"

\* bot.py:350-353: log, sleep 5, continue
AfterException == "backoff"

\* where the loop is after an iteration that ended as l records:
\* bot.py:350-353 after an exception, 231-232 with the run flag false, else 356
AfterIteration(l) ==
    IF l.raised THEN AfterException
    ELSE IF l.branch = "idle" THEN "backoff"
    ELSE "sleep"

LoopBody ==
    /\ pc = "top"
    /\ klines = FullFrame
    /\ Body(Marks, FALSE, FALSE)
    /\ orderSeq' <= LoopOrders
    /\ pc' = AfterIteration(last')

Wake ==
    /\ pc \in {"sleep", "backoff"}
    /\ pc' = "top"
    /\ last' = LastNone
    /\ UNCHANGED <<running, config, current_time, within, mark, positionAmt,
                   entryPrice, orderSeq, book, live, sl_order, tsl_triggered,
                   failures, candles, evaluated, klines, posts>>

\* close_all_positions, called while the loop runs
LoopClose == close_all_positions /\ orderSeq' <= LoopOrders

LoopNext ==
    \/ LoopBody \/ Wake \/ start_bot \/ stop_bot \/ index
    \/ LoopClose \/ cancel_all_orders
    \/ MarkMove \/ Fill

LoopSpec == Init /\ [][LoopNext]_vars /\ WF_vars(LoopBody) /\ WF_vars(Wake)

(***************************************************************************)
(* The session gate on its own: every instant of three days around a month *)
(* end, for several session starts.                                        *)
(***************************************************************************)
SessionStarts == {0, 180, 480, 1200}

Instants == {[d |-> d, m |-> m] : d \in 1..(Len(CalendarDays) - 1),
                                  m \in 0..(MinutesPerDay - 1)}

SessionInit ==
    /\ running = FALSE
    /\ config \in {[DefaultConfig EXCEPT !.session_start = s] : s \in SessionStarts}
    /\ current_time \in Instants
    /\ mark = StartMark
    /\ candles = <<>>
    /\ klines = FullFrame
    /\ Started(Account(0, 0, {}))

SessionProbe ==
    /\ within = "unknown"
    /\ within' = Gate(is_within_session(current_time, config))
    /\ UNCHANGED <<running, config, current_time, mark, positionAmt, entryPrice,
                   orderSeq, book, live, sl_order, tsl_triggered, last, failures,
                   candles, evaluated, pc, klines, posts>>

SessionNext == SessionProbe

SessionSpec == SessionInit /\ [][SessionNext]_vars

(***************************************************************************)
(* The signal on its own: every pair of candles over a few closes, vwaps   *)
(* and directions.                                                         *)
(***************************************************************************)
SignalCandles ==
    {Candle(c, v, st, 101, 99) : c \in {99, 100, 101}, v \in {100, NaN}, st \in BOOLEAN}

SignalInit ==
    /\ running = FALSE
    /\ config = DefaultConfig
    /\ current_time = [d |-> 2, m |-> 720]
    /\ mark = StartMark
    /\ candles \in {<<a, b>> : a \in SignalCandles, b \in SignalCandles}
    /\ klines = FullFrame
    /\ Started(Account(0, 0, {}))

SignalProbe ==
    /\ ~evaluated.done
    /\ evaluated' = [done |-> TRUE, buy |-> buy_condition(candles),
                     sell |-> sell_condition(candles)]
    /\ UNCHANGED <<running, config, current_time, within, mark, positionAmt,
                   entryPrice, orderSeq, book, live, sl_order, tsl_triggered, last,
                   failures, candles, pc, klines, posts>>

SignalNext == SignalProbe

SignalSpec == SignalInit /\ [][SignalNext]_vars

(***************************************************************************)
(* The scenario: the bot is started, with the default configuration, on an *)
(* account that holds a long position entered at 100 and a stop at 75 for  *)
(* it.  The mark price is 100 and moves between 60, 100, 136 and 147.      *)
(***************************************************************************)
ScenarioEntry == 100
ScenarioPrices == {60, ScenarioEntry, 136, 147}

ScenarioInit ==
    /\ running = TRUE
    /\ config = DefaultConfig
    /\ current_time = [d |-> 2, m |-> 720]
    /\ mark = ScenarioEntry
    /\ candles = <<>>
    /\ klines = FullFrame
    /\ Started(ProtectedLong)

ScenarioMove ==
    /\ mark' \in ScenarioPrices \ {mark}
    /\ last' = LastNone
    /\ UNCHANGED <<running, config, current_time, within, positionAmt,
                   entryPrice, orderSeq, book, live, sl_order, tsl_triggered,
                   failures, candles, evaluated, pc, klines, posts>>

ScenarioIteration == Body(ScenarioPrices, FALSE, TRUE) /\ UNCHANGED pc

ScenarioNext ==
    ScenarioIteration \/ start_bot \/ stop_bot \/ index \/ ScenarioMove \/ Fill

ScenarioSpec == ScenarioInit /\ [][ScenarioNext]_vars

(***************************************************************************)
(* The loop with its sleeps on a symbol for which the exchange returns a   *)
(* short frame of candles.                                                 *)
(***************************************************************************)
ShortFrames == {5, 10}

DataIteration ==
    /\ pc = "top"
    /\ Cycle
    /\ pc' = AfterIteration(last')

DataInit ==
    /\ running = TRUE
    /\ config = DefaultConfig
    /\ current_time = [d |-> 2, m |-> 720]
    /\ mark = StartMark
    /\ candles = <<>>
    /\ klines \in ShortFrames
    /\ \E a \in Accounts : Started(a)

DataNext ==
    \/ DataIteration \/ Wake \/ start_bot \/ stop_bot \/ index
    \/ close_all_positions \/ cancel_all_orders
    \/ MarkMove \/ Fill

DataSpec == DataInit /\ [][DataNext]_vars

(***************************************************************************)
(* The scenario with restarts of the bot process: the process is killed,   *)
(* between two iterations (Restart) or inside one, after a call that       *)
(* changed the exchange (RestartIteration); the module is loaded again and *)
(* its globals take their initial values (bot.py:43-44); the exchange and  *)
(* the database keep what they hold.                                       *)
(***************************************************************************)
Restart ==
    /\ sl_order' = None
    /\ tsl_triggered' = FALSE
    /\ last' = LastNone
    /\ UNCHANGED <<running, config, current_time, within, mark, positionAmt,
                   entryPrice, orderSeq, book, live, failures, candles, evaluated, pc, klines, posts>>

\* an iteration in which the process may be killed
RestartIteration == Body(ScenarioPrices, TRUE, TRUE) /\ UNCHANGED pc

RestartNext ==
    RestartIteration \/ start_bot \/ stop_bot \/ index \/ ScenarioMove \/ Fill \/ Restart

RestartSpec == ScenarioInit /\ [][RestartNext]_vars

(***************************************************************************)
(* Properties.                                                             *)
(***************************************************************************)
LiveOrders == {o \in book : o.orderId \in live}

\* the open orders on the side that closes the position
ClosingStops ==
    {o \in LiveOrders : o.side = (IF positionAmt > 0 THEN SIDE_SELL ELSE SIDE_BUY)}

\* an iteration that got as far as its queries (bot.py:261-262)
Trading(l) == l.branch \in {"flat", "position"}

\* C6: the session gate answers true exactly for the instants of the
\* half-open 21-hour interval that starts at session_start of some day.
InSessionInterval(t, start) ==
    \E k \in {t.d - 1, t.d} :
        LET s == k * MinutesPerDay + start
        IN  s <= Abs(t) /\ Abs(t) < s + SessionHours * 60

C6_SessionGate ==
    within # "unknown" =>
        (within = "in" <=> InSessionInterval(current_time, config.session_start))

StopAt(p) == \E o \in ClosingStops : ClosingStops = {o} /\ o.stopPrice = p

\* C11: in the scenario, with the long position entered at 100 open and its
\* stop set, an iteration run while the mark price is 136, with the stop at
\* 75 (the price has just risen) or at 100 (an iteration has run at 136
\* before), leaves the stop at 100; one run while the mark price is 147,
\* with the stop at 100 or at 110, leaves it at 110.  The iterations looked
\* at are those in which no order fills.
C11_Scenario ==
    [][(/\ Trading(last') /\ ~last'.filled
        /\ config = DefaultConfig
        /\ positionAmt = DefaultTradeQuantity /\ entryPrice = ScenarioEntry
        /\ positionAmt' = positionAmt /\ mark' = mark)
       => /\ (/\ mark = 136
              /\ (StopAt(ScenarioEntry - DefaultSlAmount) \/ StopAt(ScenarioEntry)))
             => StopAt(ScenarioEntry)'
          /\ (/\ mark = 147
              /\ (StopAt(ScenarioEntry) \/ StopAt(ScenarioEntry + DefaultTslStep)))
             => StopAt(ScenarioEntry + DefaultTslStep)']_vars

\* the buy test and the sell test of one candle
PassesBuy(c) == c.vwap # NaN /\ c.close > c.vwap /\ c.supertrend
PassesSell(c) == c.vwap # NaN /\ c.close < c.vwap /\ ~c.supertrend

\* C12: buy holds iff both candles pass the buy test, sell iff both pass the
\* sell test; they never hold together, and a pair of which exactly one
\* candle fails the buy test gives neither.
C12_Signal ==
    evaluated.done =>
        /\ evaluated.buy <=> (PassesBuy(candles[1]) /\ PassesBuy(candles[2]))
        /\ evaluated.sell <=> (PassesSell(candles[1]) /\ PassesSell(candles[2]))
        /\ ~(evaluated.buy /\ evaluated.sell)
        /\ (PassesBuy(candles[1]) # PassesBuy(candles[2])) =>
               (~evaluated.buy /\ ~evaluated.sell)

\* the older candle passes the buy test, the latest one passes the sell test,
\* and the answer is no signal
C12_Witness ==
    /\ evaluated.done
    /\ PassesBuy(candles[1]) /\ PassesSell(candles[2])
    /\ ~evaluated.buy /\ ~evaluated.sell

\* C13: an iteration that finds the run flag false or the time outside the
\* session places nothing, cancels nothing, and leaves the tracked stop, the
\* break-even flag and the orders on the exchange as they were.
C13_GatedNoOp ==
    [][last'.branch \in {"idle", "gated"} =>
          /\ last'.nPlace = 0 /\ last'.nCancel = 0
          /\ sl_order' = sl_order /\ tsl_triggered' = tsl_triggered
          /\ live' = live /\ book' = book]_vars

\* an iteration outside the session has run while a position is open, and
\* the stop of the position is still live
C13_Witness ==
    /\ last.branch = "gated"
    /\ positionAmt # 0
    /\ ClosingStops # {}

\* C14: the loop starts an iteration again and again, whatever failed in the
\* iterations before.
C14_NothingFatal == []<><<LoopBody>>_vars

\* an exception reached the handler of main and the loop is in its back-off
C14_Witness == pc = "backoff" /\ last.raised

C16_RestartRepair ==
    [][(/\ positionAmt > 0 /\ sl_order = None /\ ClosingStops # {}
        /\ Trading(last') /\ ~last'.filled /\ ~last'.killed)
       => /\ last'.created = 0
          /\ sl_order' \in live'
          /\ \A o \in ClosingStops : OrderOf(book', sl_order').stopPrice >= o.stopPrice]_vars

\* the initial stop of a position: opposite side, trigger one stop-loss
\* distance from the entry on the losing side, limit 0.5 further
IsInitialStop(o, amt, entry) ==
    IF amt > 0
    THEN /\ o.side = SIDE_SELL
         /\ o.stopPrice = entry - config.sl_amount
         /\ o.price = 2 * o.stopPrice - 1
    ELSE /\ o.side = SIDE_BUY
         /\ o.stopPrice = entry + config.sl_amount
         /\ o.price = 2 * o.stopPrice + 1

\* C18: an iteration run while a position is open and no stop is tracked
\* places exactly one order, cancels none, and afterwards tracks the order
\* it placed, which is live and is the initial stop of the position.  The
\* iterations looked at are those in which no order fills.
C18_InitialStop ==
    [][(/\ positionAmt # 0 /\ sl_order = None
        /\ Trading(last') /\ ~last'.filled)
       => /\ last'.created = 1 /\ last'.removed = 0
          /\ orderSeq' = orderSeq + 1
          /\ sl_order' = orderSeq'
          /\ sl_order' \in live'
          /\ IsInitialStop(OrderOf(book', sl_order'), positionAmt, entryPrice)]_vars

\* the entry order for signal sig at trigger price t
IsEntryOrder(o, sig, t) ==
    /\ o.stopPrice = t
    /\ IF sig = "buy" THEN o.side = SIDE_BUY /\ o.price = 2 * t + 1 /\ t \in Highs
       ELSE o.side = SIDE_SELL /\ o.price = 2 * t - 1 /\ t \in Lows

\* C19: an iteration run while the account is flat, with a buy (sell)
\* signal: with no open stop order of the side it places one entry order and
\* cancels none; with one at the same trigger price it places and cancels
\* nothing; with one at a different trigger price it cancels that one and
\* places one entry order.  The order placed has the trigger and limit price
\* of the signal and the configured quantity.
C19_EntryDecisionTable ==
    [][(/\ positionAmt = 0 /\ last'.branch = "flat"
        /\ last'.signal \in {"buy", "sell"})
       => LET sig == last'.signal
              t == last'.trigger
              side == IF sig = "buy" THEN SIDE_BUY ELSE SIDE_SELL
              M == {o \in LiveOrders :
                      o.side = side /\ o.type = ORDER_TYPE_STOP_LOSS_LIMIT}
              placed == /\ orderSeq' = orderSeq + 1
                        /\ IsEntryOrder(OrderOf(book', orderSeq'), sig, t)
                        /\ OrderOf(book', orderSeq').origQty = config.trade_quantity
                        /\ orderSeq' \in live'
              \* the open orders afterwards are these, less an order that
              \* filled while the iteration ran
              opens(expected) == IF last'.filled THEN live' \subseteq expected
                                 ELSE live' = expected
          IN  /\ M = {} =>
                    /\ last'.created = 1 /\ last'.removed = 0
                    /\ placed /\ opens(live \cup {orderSeq'})
              /\ \A o \in M : (M = {o} /\ o.stopPrice = t) =>
                    /\ last'.created = 0 /\ last'.removed = 0
                    /\ orderSeq' = orderSeq /\ opens(live)
              /\ \A o \in M : (M = {o} /\ o.stopPrice # t) =>
                    /\ last'.created = 1 /\ last'.removed = 1
                    /\ placed /\ opens((live \ {o.orderId}) \cup {orderSeq'})]_vars

====
